---- MODULE Spec2Model ----
(***************************************************************************)
(* job_garden: the JSON store of vacancies (src/src/files.py, JSONSaver)   *)
(* with the identity function of src/src/utils.py and the to_dict          *)
(* conversion of src/src/vacancy.py; the collector of src/src/api.py       *)
(* (HeadHunterAPI.load_vacancies); the comparison of vacancies and the     *)
(* list functions of src/src/utils.py.                                     *)
(*                                                                         *)
(* A Python value is a tagged record [t, v]: t is the Python type          *)
(* ("str", "int", "none", "dict") or "absent" for a key the mapping does   *)
(* not hold; a text is the sequence of its characters.                     *)
(***************************************************************************)
EXTENDS Integers, Sequences, FiniteSets, TLC

VARIABLES
    file,     \* the backing file: [kind, data]
    op,       \* the operation that ran last
    arg,      \* its arguments
    ret,      \* its outcome: [raised, value]
    before,   \* the backing file when that operation started
    reads,    \* how many times that operation called _read_all
    writes,   \* how many times that operation called _write_all
    pc,       \* where a load_vacancies call stands: idle, loop, returned, raised
    items,    \* load_vacancies: the records accumulated so far
    page,     \* load_vacancies: the page the next request asks for
    sent,     \* load_vacancies: the payloads of the requests issued, in order
    got,      \* load_vacancies: the responses received, in order
    saving,   \* save_to_json calls under way at once: what each has read
    source    \* the ordered results a paginated source holds

vars ==
    <<file, op, arg, ret, before, reads, writes, pc, items, page, sent, got,
      saving, source>>

\* what the store and the list functions leave alone
apart == <<pc, items, page, sent, got, saving, source>>

\* the local state of a load_vacancies call
loader == <<pc, items, page, sent, got>>

\* no save_to_json call is under way beside the operation that runs
NooneSaving == saving = <<>>

\* no paginated source is asked
NoSource == source = <<>>

\* no load_vacancies call is under way
LoaderIdle ==
    /\ pc = "idle"
    /\ items = <<>>
    /\ page = 0
    /\ sent = <<>>
    /\ got = <<>>

-----------------------------------------------------------------------------
(* Bounds of the model.                                                    *)

\* longest batch handed to save_to_json
MaxBatch == 2

\* longest stored sequence the model lets a save produce
MaxStore == 2

-----------------------------------------------------------------------------
(* Python values.                                                          *)

S(text) == [t |-> "str", v |-> text]
I(n) == [t |-> "int", v |-> n]
D(fields) == [t |-> "dict", v |-> fields]
ListOf(list) == [t |-> "list", v |-> list]
None == [t |-> "none", v |-> <<>>]
Absent == [t |-> "absent", v |-> <<>>]

\* str.lower() and str.upper() on the characters the model uses
LowerChar(c) ==
    CASE c = "A" -> "a" [] c = "H" -> "h" [] c = "M" -> "m" [] c = "P" -> "p"
      [] c = "R" -> "r" [] c = "U" -> "u" [] c = "Y" -> "y" [] c = "N" -> "n"
      [] c = "G" -> "g" [] c = "D" -> "d"
      [] OTHER -> c

UpperChar(c) ==
    CASE c = "a" -> "A" [] c = "h" -> "H" [] c = "m" -> "M" [] c = "p" -> "P"
      [] c = "r" -> "R" [] c = "u" -> "U" [] c = "y" -> "Y" [] c = "n" -> "N"
      [] c = "o" -> "O" [] c = "e" -> "E" [] c = "g" -> "G" [] c = "d" -> "D"
      [] OTHER -> c

Lower(text) == [i \in 1..Len(text) |-> LowerChar(text[i])]

Upper(text) == [i \in 1..Len(text) |-> UpperChar(text[i])]

\* str.strip(): the text without its leading and trailing blanks
Strip(text) ==
    LET inked == {i \in 1..Len(text) : text[i] # " "}
    IN  IF inked = {} THEN <<>>
        ELSE LET first == CHOOSE i \in inked : \A j \in inked : i <= j
                 last == CHOOSE i \in inked : \A j \in inked : j <= i
             IN  SubSeq(text, first, last)

\* needle in hay, for Python strings
Contains(hay, needle) ==
    \E i \in 1..(Len(hay) - Len(needle) + 1) :
        SubSeq(hay, i, i + Len(needle) - 1) = needle

\* the decimal digits of a small natural number
Digits(n) ==
    LET d == <<"0", "1", "2", "3", "4", "5", "6", "7", "8", "9">>
    IN  IF n < 10 THEN <<d[n + 1]>> ELSE <<d[(n \div 10) + 1], d[(n % 10) + 1]>>

\* str(x) for a scalar
Str(x) ==
    CASE x.t = "str" -> x.v
      [] x.t = "int" -> Digits(x.v)
      [] x.t = "none" -> <<"N", "o", "n", "e">>

\* bool(x): Python's truth value
Truthy(x) ==
    CASE x.t = "str" -> x.v # <<>>
      [] x.t = "int" -> x.v # 0
      [] x.t = "dict" -> DOMAIN x.v # {}
      [] OTHER -> FALSE

\* mapping.get(key, default)
GetOr(m, key, default) ==
    IF key \in DOMAIN m /\ m[key].t # "absent" THEN m[key] ELSE default

\* mapping.get(key): None when the key is missing
Get(m, key) == GetOr(m, key, None)

\* the empty dict {}
EmptyDict == D(<<>>)

-----------------------------------------------------------------------------
(* The values the operations are called with.                              *)

\* a vacancy mapping in the shape of an hh.ru record
Raw(id, name, area, address, salary, snippet, url, alternate_url, employer) ==
    [py |-> "dict", id |-> id, name |-> name, area |-> area, address |-> address,
     salary |-> salary, snippet |-> snippet, url |-> url,
     alternate_url |-> alternate_url, employer |-> employer]

Salary(from, to, currency) == D([from |-> from, to |-> to, currency |-> currency])

Snippet(requirement, responsibility) ==
    D([requirement |-> requirement, responsibility |-> responsibility])

\* id "A", the shape of the test fixture (no address key)
rA ==
    Raw(S(<<"A">>), S(<<"P", "y">>), D([name |-> S(<<"M">>)]), Absent,
        Salary(I(2), None, S(<<"R">>)), Snippet(S(<<"p", "y">>), None),
        S(<<"u">>), S(<<"h">>), None)

\* a Vacancy object: id "A" again, with another salary
vA ==
    [py |-> "Vacancy", id |-> S(<<"A">>), name |-> S(<<"P", "y">>),
     city |-> S(<<"M">>), salary_from |-> I(3), salary_to |-> None,
     currency |-> S(<<"R">>), requirement |-> S(<<"p", "y">>),
     responsibility |-> None, url |-> S(<<"u">>),
     alternate_url |-> S(<<"h">>), employer |-> None]

\* Vacancy.to_dict
to_dict(self) ==
    Raw(self.id, self.name, D([name |-> self.city]), Absent,
        Salary(self.salary_from, self.salary_to, self.currency),
        Snippet(self.requirement, self.responsibility),
        self.url, self.alternate_url,
        IF Truthy(self.employer) THEN D([name |-> self.employer]) ELSE None)

\* the serialised Vacancy: the same identity as rA, newer content
rA2 == to_dict(vA)

\* a raw upstream record with nulls and a numeric id, which is no identity:
\* the identity is the url, which is rA's url too
rU ==
    Raw(I(5), S(<<"G", "o">>), D([name |-> S(<<"m">>)]), None,
        Salary(None, I(4), S(<<"r">>)), None, S(<<"u">>), Absent, Absent)

\* no identity at all: a blank id, no url, an empty alternate_url
rN ==
    Raw(S(<<" ">>), None, Absent, Absent, Salary(S(<<"3">>), None, None),
        Absent, Absent, S(<<>>), Absent)

\* an element that is no Mapping and has no to_dict
NotMapping == [py |-> "int"]

Mappings == {rA, rA2, rU, rN}

Items == Mappings \cup {NotMapping}

\* the sequences over a set, up to a length
SeqUpTo(set, n) == UNION {[1..k -> set] : k \in 0..n}

Batches == SeqUpTo(Items, MaxBatch)

-----------------------------------------------------------------------------
(* src/src/utils.py                                                        *)

\* isinstance(val, str) and val.strip()
IsIdentityValue(val) == val.t = "str" /\ Strip(val.v) # <<>>

\* The first of id, url, alternate_url that is a non-blank string, or None.
pick_identity(v) ==
    LET keys == <<"id", "url", "alternate_url">>
        good == {k \in 1..Len(keys) : IsIdentityValue(Get(v, keys[k]))}
    IN  IF good = {} THEN None
        ELSE Get(v, keys[CHOOSE k \in good : \A j \in good : k <= j])

-----------------------------------------------------------------------------
(* src/src/files.py: reading and writing the backing file.                 *)

\* What the file holds: kind is how json.load sees it ("missing", "zero" for a
\* zero-byte file, "invalid" for text that is no JSON, "nonlist" for a JSON
\* document that is no list, "list"), data the records in its text.
File(kind, data) == [kind |-> kind, data |-> data]

IsMapping(x) == x.py = "dict"

\* mutant: a JSON document that is no list is handed on as it is
ReadAllKeepsNonList(f) ==
    CASE f.kind \in {"missing", "zero"} -> <<>>
      [] f.kind = "invalid" -> <<>>
      [] f.kind \in {"nonlist", "list"} -> f.data

\* JSONSaver._read_all
ReadAll(f) ==
    CASE f.kind \in {"missing", "zero"} -> <<>>
      [] f.kind = "invalid" -> <<>>
      [] f.kind = "nonlist" -> <<>>
      [] f.kind = "list" -> f.data

\* JSONSaver._write_all: the file becomes the JSON list of the records
WriteAll(data) == File("list", data)

\* JSONSaver.load_from_json
load_from_json(f) == ReadAll(f)

-----------------------------------------------------------------------------
(* src/src/files.py: save_to_json and add_vacancy.                         *)

\* mutant: the records already stored are not indexed
BuildIndexEmpty(current, n) == <<>>

\* The loop of lines 65-68 over current[1..n]: index[ident] = i for every
\* record with an identity, a later record replacing an earlier one.
\* Positions count from 1 here and from 0 in the code.
RECURSIVE BuildIndex(_, _)
BuildIndex(current, n) ==
    IF n = 0 THEN <<>>
    ELSE LET index == BuildIndex(current, n - 1)
             ident == pick_identity(current[n])
         IN  IF Truthy(ident) THEN (ident.v :> n) @@ index ELSE index

\* mutant: a record of the batch is appended whether or not its identity is stored
UpsertOneAppends(st, v_new) ==
    IF ~IsMapping(v_new) THEN st
    ELSE [st EXCEPT !.current = Append(st.current, v_new)]

\* mutant: a stored identity is kept as it is, the new record is dropped
UpsertOneKeepsOld(st, v_new) ==
    IF ~IsMapping(v_new) THEN st
    ELSE LET ident == pick_identity(v_new)
         IN  IF Truthy(ident) /\ ident.v \in DOMAIN st.index THEN st
             ELSE LET current == Append(st.current, v_new)
                  IN  [current |-> current,
                       index |-> IF Truthy(ident)
                                 THEN (ident.v :> Len(current)) @@ st.index
                                 ELSE st.index]

\* mutant: a record without identity is skipped like a non-mapping
UpsertOneSkipsAnonymous(st, v_new) ==
    IF ~IsMapping(v_new) \/ ~Truthy(pick_identity(v_new)) THEN st
    ELSE LET ident == pick_identity(v_new)
         IN  IF ident.v \in DOMAIN st.index
             THEN [st EXCEPT !.current[st.index[ident.v]] = v_new]
             ELSE LET current == Append(st.current, v_new)
                  IN  [current |-> current,
                       index |-> (ident.v :> Len(current)) @@ st.index]

\* One turn of the loop of lines 70-81, on st = [current, index].
UpsertOne(st, v_new) ==
    IF ~IsMapping(v_new) THEN st
    ELSE LET ident == pick_identity(v_new)
         IN  IF Truthy(ident) /\ ident.v \in DOMAIN st.index
             THEN [st EXCEPT !.current[st.index[ident.v]] = v_new]
             ELSE LET current == Append(st.current, v_new)
                  IN  [current |-> current,
                       index |-> IF Truthy(ident)
                                 THEN (ident.v :> Len(current)) @@ st.index
                                 ELSE st.index]

\* The loop of lines 70-81 over vacancies[1..n].
RECURSIVE UpsertAll(_, _, _)
UpsertAll(st, vacancies, n) ==
    IF n = 0 THEN st
    ELSE UpsertOne(UpsertAll(st, vacancies, n - 1), vacancies[n])

\* mutant: the save starts from an empty list instead of the file's records
SavedListFresh(f, vacancies) ==
    UpsertAll([current |-> <<>>, index |-> <<>>], vacancies, Len(vacancies)).current

\* The list save_to_json hands to _write_all (lines 62-81).
SavedList(f, vacancies) ==
    LET current == ReadAll(f)
        index == BuildIndex(current, Len(current))
    IN  UpsertAll([current |-> current, index |-> index],
                  vacancies, Len(vacancies)).current

Returned(value) == [raised |-> "none", value |-> value]

Raised(exception) == [raised |-> exception, value |-> None]

\* save_to_json's effect on the file: one read, one write
Saves(vacancies) ==
    LET current == SavedList(file, vacancies)
    IN  /\ Len(current) <= MaxStore
        /\ file' = WriteAll(current)
        /\ before' = file
        /\ reads' = 1
        /\ writes' = 1

\* JSONSaver.save_to_json
SaveToJson(vacancies) ==
    /\ Saves(vacancies)
    /\ op' = "save_to_json"
    /\ arg' = [vacancies |-> vacancies]
    /\ ret' = Returned(None)

\* an object whose to_dict is callable and raises when called
vRaising == [py |-> "Raising"]

\* what add_vacancy may be given: a mapping, a Vacancy, an object whose
\* to_dict raises, something else
Addable == Mappings \cup {vA, vRaising, NotMapping}

\* hasattr(vacancy, "to_dict") and callable(vacancy.to_dict)
HasToDict(vacancy) == vacancy.py \in {"Vacancy", "Raising"}

\* add_vacancy's outcome when it leaves the file alone
AddsNothing(outcome) ==
    /\ ret' = outcome
    /\ before' = file
    /\ reads' = 0
    /\ writes' = 0
    /\ UNCHANGED file

\* mutant: an object with to_dict is handed to save_to_json as it is
AddVacancyStoresObject(vacancy) ==
    /\ op' = "add_vacancy"
    /\ arg' = [vacancy |-> vacancy]
    /\ IF IsMapping(vacancy) \/ HasToDict(vacancy)
       THEN Saves(<<vacancy>>) /\ ret' = Returned(None)
       ELSE AddsNothing(Raised("TypeError"))

\* JSONSaver.add_vacancy; an exception of to_dict or of the save is caught
\* and printed (lines 95-98)
AddVacancy(vacancy) ==
    /\ op' = "add_vacancy"
    /\ arg' = [vacancy |-> vacancy]
    /\ IF IsMapping(vacancy)
       THEN Saves(<<vacancy>>) /\ ret' = Returned(None)
       ELSE IF HasToDict(vacancy)
       THEN IF vacancy.py = "Raising"
            THEN AddsNothing(Returned(None))
            ELSE Saves(<<to_dict(vacancy)>>) /\ ret' = Returned(None)
       ELSE AddsNothing(Raised("TypeError"))

-----------------------------------------------------------------------------
(* src/src/files.py: delete_vacancy.                                       *)

\* the selectors delete_vacancy is called with (Optional[str])
VacancyIds == {None, S(<<>>), S(<<"A">>), S(<<"5">>), S(<<" ">>)}

Urls == {None, S(<<>>), S(<<"u">>), S(<<"h">>)}

\* mutant: the alternate_url is not looked at
should_delete_url_only(v, vacancy_id, url) ==
    \/ Truthy(vacancy_id) /\ Str(GetOr(v, "id", S(<<>>))) = vacancy_id.v
    \/ Truthy(url) /\ Get(v, "url") = url

\* mutant: the id is compared as it is stored, not as a string
should_delete_id_as_stored(v, vacancy_id, url) ==
    \/ Truthy(vacancy_id) /\ Get(v, "id") = vacancy_id
    \/ Truthy(url) /\ (Get(v, "url") = url \/ Get(v, "alternate_url") = url)

\* delete_vacancy.should_delete (lines 175-180)
should_delete(v, vacancy_id, url) ==
    \/ Truthy(vacancy_id) /\ Str(GetOr(v, "id", S(<<>>))) = vacancy_id.v
    \/ Truthy(url) /\ (Get(v, "url") = url \/ Get(v, "alternate_url") = url)

\* [v for v in before if not should_delete(v)] (line 182)
AfterDelete(records, vacancy_id, url) ==
    SelectSeq(records, LAMBDA v : ~should_delete(v, vacancy_id, url))

\* mutant: no selector check, the file is read and nothing matches
DeleteVacancyUnchecked(vacancy_id, url) ==
    LET after == AfterDelete(ReadAll(file), vacancy_id, url)
        deleted == Len(ReadAll(file)) - Len(after)
    IN  /\ op' = "delete_vacancy"
        /\ arg' = [vacancy_id |-> vacancy_id, url |-> url]
        /\ before' = file
        /\ reads' = 1
        /\ ret' = Returned(deleted)
        /\ IF deleted # 0
           THEN file' = WriteAll(after) /\ writes' = 1
           ELSE file' = file /\ writes' = 0

\* mutant: the list is written back whether or not something was removed
DeleteVacancyAlwaysWrites(vacancy_id, url) ==
    /\ op' = "delete_vacancy"
    /\ arg' = [vacancy_id |-> vacancy_id, url |-> url]
    /\ before' = file
    /\ IF ~Truthy(vacancy_id) /\ ~Truthy(url)
       THEN /\ ret' = Raised("ValueError")
            /\ reads' = 0
            /\ writes' = 0
            /\ UNCHANGED file
       ELSE LET after == AfterDelete(ReadAll(file), vacancy_id, url)
            IN  /\ reads' = 1
                /\ ret' = Returned(Len(ReadAll(file)) - Len(after))
                /\ file' = WriteAll(after)
                /\ writes' = 1

\* JSONSaver.delete_vacancy
DeleteVacancy(vacancy_id, url) ==
    /\ op' = "delete_vacancy"
    /\ arg' = [vacancy_id |-> vacancy_id, url |-> url]
    /\ before' = file
    /\ IF ~Truthy(vacancy_id) /\ ~Truthy(url)
       THEN /\ ret' = Raised("ValueError")
            /\ reads' = 0
            /\ writes' = 0
            /\ UNCHANGED file
       ELSE LET after == AfterDelete(ReadAll(file), vacancy_id, url)
                deleted == Len(ReadAll(file)) - Len(after)
            IN  /\ reads' = 1
                /\ ret' = Returned(deleted)
                /\ IF deleted # 0
                   THEN file' = WriteAll(after) /\ writes' = 1
                   ELSE file' = file /\ writes' = 0

-----------------------------------------------------------------------------
(* src/src/files.py: get_vacancy_info.                                     *)

\* the criteria get_vacancy_info is called with
Keywords == {None, S(<<" ">>), S(<<"P", "Y", " ">>), S(<<"o", "n">>)}

Cities == {None, S(<<"m">>)}

MinSalaries == {None, I(3)}

Currencies == {None, S(<<"r">>)}

DigitChars == <<"0", "1", "2", "3", "4", "5", "6", "7", "8", "9">>

IsDigit(c) == \E d \in 1..Len(DigitChars) : DigitChars[d] = c

DigitValue(c) == (CHOOSE d \in 1..Len(DigitChars) : DigitChars[d] = c) - 1

RECURSIVE ParseDigits(_, _)
ParseDigits(text, n) ==
    IF n = 0 THEN 0 ELSE ParseDigits(text, n - 1) * 10 + DigitValue(text[n])

\* int(x): [ok, n]; ok is FALSE where int raises TypeError or ValueError
IntOf(x) ==
    CASE x.t = "int" -> [ok |-> TRUE, n |-> x.v]
      [] x.t = "str" ->
            LET text == Strip(x.v)
            IN  IF text # <<>> /\ \A i \in 1..Len(text) : IsDigit(text[i])
                THEN [ok |-> TRUE, n |-> ParseDigits(text, Len(text))]
                ELSE [ok |-> FALSE, n |-> 0]
      [] OTHER -> [ok |-> FALSE, n |-> 0]

\* (x or ""), then a str method: the text, for None and for a str
OrEmpty(x) == IF Truthy(x) THEN x.v ELSE <<>>

\* str(v.get(outer, {}).get(inner, "")).lower() (lines 127, 128, 133, 134):
\* [raises, text]; .get on a value that is no dict raises AttributeError
Nested(v, outer, inner) ==
    LET o == GetOr(v, outer, EmptyDict)
    IN  IF o.t # "dict" THEN [raises |-> TRUE, text |-> <<>>]
        ELSE [raises |-> FALSE,
              text |-> Lower(Str(GetOr(o.v, inner, S(<<>>))))]

\* v.get("salary") or {}
SalaryOf(v) == IF Truthy(Get(v, "salary")) THEN Get(v, "salary") ELSE EmptyDict

\* lines 125-130: "pass", "False" or "AttributeError"
MatchKeyword(v, kw) ==
    IF kw = <<>> THEN "pass"
    ELSE LET name == Lower(Str(GetOr(v, "name", S(<<>>))))
             resp == Nested(v, "snippet", "responsibility")
             req == Nested(v, "snippet", "requirement")
         IN  IF resp.raises \/ req.raises THEN "AttributeError"
             ELSE IF ~Contains(name, kw) /\ ~Contains(resp.text, kw)
                     /\ ~Contains(req.text, kw)
             THEN "False"
             ELSE "pass"

\* lines 132-136
MatchCity(v, city_norm) ==
    IF city_norm = <<>> THEN "pass"
    ELSE LET area_name == Nested(v, "area", "name")
             addr_city == Nested(v, "address", "city")
         IN  IF area_name.raises \/ addr_city.raises THEN "AttributeError"
             ELSE IF ~Contains(area_name.text, city_norm)
                     /\ ~Contains(addr_city.text, city_norm)
             THEN "False"
             ELSE "pass"

\* lines 138-141
MatchCurrency(v, cur_norm) ==
    IF cur_norm = <<>> THEN "pass"
    ELSE LET sal == SalaryOf(v)
         IN  IF sal.t # "dict" THEN "False"
             ELSE LET currency == Get(sal.v, "currency")
                  IN  IF Truthy(currency) /\ currency.t # "str"
                      THEN "AttributeError"
                      ELSE IF Upper(OrEmpty(currency)) # cur_norm
                      THEN "False"
                      ELSE "pass"

\* lines 143-152
MatchMinSalary(v, min_salary) ==
    IF min_salary.t # "int" THEN "pass"
    ELSE LET sal == SalaryOf(v)
         IN  IF sal.t # "dict" THEN "AttributeError"
             ELSE LET sal_from == Get(sal.v, "from")
                  IN  IF sal_from.t = "none" THEN "False"
                      ELSE IF ~IntOf(sal_from).ok THEN "False"
                      ELSE IF IntOf(sal_from).n < min_salary.v THEN "False"
                      ELSE "pass"

\* get_vacancy_info.match (lines 124-154): "True", "False" or "AttributeError"
match(v, kw, city_norm, cur_norm, min_salary) ==
    LET steps == <<MatchKeyword(v, kw), MatchCity(v, city_norm),
                   MatchCurrency(v, cur_norm), MatchMinSalary(v, min_salary)>>
        stops == {i \in 1..Len(steps) : steps[i] # "pass"}
    IN  IF stops = {} THEN "True"
        ELSE steps[CHOOSE i \in stops : \A j \in stops : i <= j]

\* The outcome of get_vacancy_info on the records read (lines 119-156).
VacancyInfo(data, keyword, city, min_salary, currency) ==
    LET kw == Lower(Strip(OrEmpty(keyword)))
        city_norm == Lower(Strip(OrEmpty(city)))
        cur_norm == Upper(Strip(OrEmpty(currency)))
        verdict(v) == match(v, kw, city_norm, cur_norm, min_salary)
    IN  IF \E i \in 1..Len(data) : verdict(data[i]) = "AttributeError"
        THEN Raised("AttributeError")
        ELSE Returned(SelectSeq(data, LAMBDA v : verdict(v) = "True"))

\* JSONSaver.get_vacancy_info
GetVacancyInfo(keyword, city, min_salary, currency) ==
    /\ op' = "get_vacancy_info"
    /\ arg' = [keyword |-> keyword, city |-> city, min_salary |-> min_salary,
               currency |-> currency]
    /\ ret' = VacancyInfo(ReadAll(file), keyword, city, min_salary, currency)
    /\ before' = file
    /\ reads' = 1
    /\ writes' = 0
    /\ UNCHANGED file

\* JSONSaver.load_from_json
LoadFromJson ==
    /\ op' = "load_from_json"
    /\ arg' = <<>>
    /\ ret' = Returned(load_from_json(file))
    /\ before' = file
    /\ reads' = 1
    /\ writes' = 0
    /\ UNCHANGED file

-----------------------------------------------------------------------------
(* The store driven by any sequence of calls.                              *)

\* a new JSONSaver on a path where no file is yet
Init ==
    /\ file = File("missing", <<>>)
    /\ op = "init"
    /\ arg = <<>>
    /\ ret = Returned(None)
    /\ before = File("missing", <<>>)
    /\ reads = 0
    /\ writes = 0
    /\ LoaderIdle
    /\ NooneSaving
    /\ NoSource

\* a backing file that is missing, zero-byte, no JSON, or a JSON object
DamagedFiles ==
    {File("missing", <<>>), File("zero", <<>>), File("invalid", <<rA, rN>>),
     File("nonlist", <<rA>>)}

\* a new JSONSaver on a path that holds a damaged file
InitDamaged ==
    /\ file \in DamagedFiles
    /\ op = "init"
    /\ arg = <<>>
    /\ ret = Returned(None)
    /\ before = file
    /\ reads = 0
    /\ writes = 0
    /\ LoaderIdle
    /\ NooneSaving
    /\ NoSource

Next ==
    \/ \E vacancies \in Batches : SaveToJson(vacancies) /\ UNCHANGED apart
    \/ \E vacancy \in Addable : AddVacancy(vacancy) /\ UNCHANGED apart
    \/ \E vacancy_id \in VacancyIds, url \in Urls :
          DeleteVacancy(vacancy_id, url) /\ UNCHANGED apart
    \/ \E keyword \in Keywords, city \in Cities, min_salary \in MinSalaries,
          currency \in Currencies :
            GetVacancyInfo(keyword, city, min_salary, currency) /\ UNCHANGED apart
    \/ LoadFromJson /\ UNCHANGED apart

Spec == Init /\ [][Next]_vars

SpecDamaged == InitDamaged /\ [][Next]_vars

-----------------------------------------------------------------------------
(* What the claims speak of.                                               *)

\* the stored sequence, now and when the last operation started
Stored == ReadAll(file)

StoredBefore == ReadAll(before)

\* the non-null identities of the mappings of a sequence
Identities(records) ==
    {pick_identity(records[i]).v :
        i \in {j \in 1..Len(records) :
                 IsMapping(records[j]) /\ pick_identity(records[j]) # None}}

\* the positions of a sequence that hold a mapping with this identity
Carrying(records, ident) ==
    {i \in 1..Len(records) :
        IsMapping(records[i]) /\ pick_identity(records[i]) = ident}

\* the positions of a sequence that hold a mapping without identity
Anonymous(records) == Carrying(records, None)

Max(set) == CHOOSE i \in set : \A j \in set : j <= i

SavedBatch == op = "save_to_json"

\* the last operation returned this value
Returns(value) == ret.raised = "none" /\ ret.value = value

\* the last operation raised this exception
Raises(exception) == ret.raised = exception

Deleted == op = "delete_vacancy"

-----------------------------------------------------------------------------
(* C1: whatever saves, adds and deletes ran on a store that started empty, *)
(* no two stored records have the same non-null identity.                  *)
C1_OneRecordPerIdentity ==
    \A i, j \in 1..Len(Stored) :
        (i # j /\ pick_identity(Stored[i]) # None)
            => pick_identity(Stored[i]) # pick_identity(Stored[j])

\* a save whose batch names twice an identity that was stored already
C1_Witness ==
    /\ SavedBatch
    /\ \E ident \in Identities(StoredBefore) :
          Cardinality(Carrying(arg.vacancies, S(ident))) = 2
    /\ Len(Stored) = Len(StoredBefore)

(* C2: after save_to_json(batch), every non-null identity of the batch is  *)
(* carried by exactly one stored record, and that record equals the last   *)
(* record of the batch with that identity.                                 *)
C2_LastWriteWins ==
    SavedBatch =>
        \A ident \in Identities(arg.vacancies) :
            LET last == Max(Carrying(arg.vacancies, S(ident)))
                at == Carrying(Stored, S(ident))
            IN  /\ Cardinality(at) = 1
                /\ \A k \in at : Stored[k] = arg.vacancies[last]

\* the identity was stored, and the batch carries it twice with different content
C2_Witness ==
    /\ SavedBatch
    /\ \E ident \in Identities(StoredBefore) :
          \E i, j \in Carrying(arg.vacancies, S(ident)) :
             /\ i < j
             /\ arg.vacancies[i] # arg.vacancies[j]
             /\ \A k \in Carrying(StoredBefore, S(ident)) :
                   StoredBefore[k] # arg.vacancies[j]

(* C3: when every record of a batch has an identity, saving the batch a    *)
(* second time leaves the stored sequence as the first save left it.       *)
C3_SaveIdempotent ==
    (SavedBatch /\ Anonymous(arg.vacancies) = {}
        /\ \A i \in 1..Len(arg.vacancies) : IsMapping(arg.vacancies[i]))
    => SavedList(file, arg.vacancies) = Stored

\* a batch of two versions of one identity, saved onto a store that held more
C3_Witness ==
    /\ SavedBatch
    /\ Len(arg.vacancies) = 2
    /\ \A i \in 1..Len(arg.vacancies) : IsMapping(arg.vacancies[i])
    /\ Anonymous(arg.vacancies) = {}
    /\ arg.vacancies[1] # arg.vacancies[2]
    /\ Cardinality(Identities(arg.vacancies)) = 1
    /\ Len(StoredBefore) = 2
    /\ Identities(StoredBefore) \ Identities(arg.vacancies) # {}

(* C4: after save_to_json(batch), the identities in the store are those    *)
(* that were in it before together with those of the batch's mappings.     *)
C4_IdentitiesAreUnion ==
    SavedBatch =>
        Identities(Stored) = Identities(StoredBefore) \cup Identities(arg.vacancies)

\* an identity stays, one arrives, and the batch holds a non-mapping too
C4_Witness ==
    /\ SavedBatch
    /\ Identities(StoredBefore) \ Identities(arg.vacancies) # {}
    /\ Identities(arg.vacancies) \ Identities(StoredBefore) # {}
    /\ \E i \in 1..Len(arg.vacancies) : ~IsMapping(arg.vacancies[i])

(* C5: a mapping without identity is always appended: a save lengthens the *)
(* store by the number of such mappings in the batch plus the number of    *)
(* identities that are new, the stored records without identity stay where *)
(* they are, and those of the batch follow them in the batch's order.      *)
C5_AnonymousAppended ==
    SavedBatch =>
        LET old == Len(StoredBefore)
            tail == SubSeq(Stored, old + 1, Len(Stored))
            anonymous(records) ==
                SelectSeq(records,
                          LAMBDA v : IsMapping(v) /\ pick_identity(v) = None)
        IN  /\ Len(Stored) = old + Cardinality(Anonymous(arg.vacancies))
                   + Cardinality(Identities(arg.vacancies)
                                     \ Identities(StoredBefore))
            /\ \A i \in Anonymous(StoredBefore) : Stored[i] = StoredBefore[i]
            /\ anonymous(tail) = anonymous(arg.vacancies)

\* the record without identity is saved again and is stored twice
C5_Witness ==
    /\ SavedBatch
    /\ Anonymous(StoredBefore) # {}
    /\ \E i \in Anonymous(arg.vacancies) :
          \E k \in Anonymous(StoredBefore) : StoredBefore[k] = arg.vacancies[i]
    /\ Cardinality(Anonymous(Stored)) = 2

(* C6, as the claim states it: a delete with a selector removes exactly the *)
(* records whose id equals vacancy_id or whose url or alternate_url equals *)
(* url, keeps the others in their order and returns the number removed.    *)
C6_DeleteRemovesEqualId ==
    (Deleted /\ (Truthy(arg.vacancy_id) \/ Truthy(arg.url))) =>
        LET named(v) ==
                \/ Truthy(arg.vacancy_id) /\ Get(v, "id") = arg.vacancy_id
                \/ Truthy(arg.url) /\ Get(v, "url") = arg.url
                \/ Truthy(arg.url) /\ Get(v, "alternate_url") = arg.url
            kept == SelectSeq(StoredBefore, LAMBDA v : ~named(v))
        IN  /\ Stored = kept
            /\ Returns(Len(StoredBefore) - Len(kept))

(* C6, amended: a delete removes exactly the records whose id, turned into *)
(* a string by str() (a missing id being the empty string), equals a       *)
(* non-empty vacancy_id, or whose url or alternate_url equals a non-empty  *)
(* url; it keeps the others in their order and returns the number removed. *)
C6_DeleteRemovesMatching ==
    (Deleted /\ (Truthy(arg.vacancy_id) \/ Truthy(arg.url))) =>
        LET idText(v) == IF v.id.t = "absent" THEN <<>> ELSE Str(v.id)
            named(v) ==
                \/ Truthy(arg.vacancy_id) /\ idText(v) = arg.vacancy_id.v
                \/ Truthy(arg.url) /\ Get(v, "url") = arg.url
                \/ Truthy(arg.url) /\ Get(v, "alternate_url") = arg.url
            kept == SelectSeq(StoredBefore, LAMBDA v : ~named(v))
        IN  /\ Stored = kept
            /\ Returns(Len(StoredBefore) - Len(kept))

\* a record with a numeric id is removed by vacancy_id, another record stays
C6_Witness ==
    /\ Deleted
    /\ Truthy(arg.vacancy_id) /\ ~Truthy(arg.url)
    /\ Returns(1)
    /\ Len(Stored) = 1
    /\ \E i \in 1..Len(StoredBefore) :
          StoredBefore[i].id.t = "int" /\ StoredBefore[i] # Stored[1]

(* C7: a delete with neither selector raises the validation error before   *)
(* it reads or writes, and the file is as it was.                          *)
C7_NoSelectorRaises ==
    (Deleted /\ ~Truthy(arg.vacancy_id) /\ ~Truthy(arg.url)) =>
        /\ Raises("ValueError")
        /\ reads = 0
        /\ writes = 0
        /\ file = before

\* an empty vacancy_id and no url, on a store that holds records
C7_Witness ==
    /\ Deleted
    /\ arg.vacancy_id = S(<<>>)
    /\ arg.url = None
    /\ Raises("ValueError")
    /\ Len(Stored) = 2

(* C8: a delete writes the file exactly when it removed something; when no *)
(* record matches it returns 0 and the file, a missing one too, is as it   *)
(* was.                                                                    *)
C8_WritesIffRemoved ==
    Deleted =>
        LET removed == ret.raised = "none" /\ ret.value # 0
            matching ==
                {i \in 1..Len(StoredBefore) :
                    should_delete(StoredBefore[i], arg.vacancy_id, arg.url)}
        IN  /\ writes = IF removed THEN 1 ELSE 0
            /\ ~removed => file = before
            /\ (ret.raised = "none" /\ matching = {}) => Returns(0)

\* a delete with a selector finds no file: it returns 0 and creates none
C8_Witness ==
    /\ Deleted
    /\ Truthy(arg.url)
    /\ Returns(0)
    /\ before.kind = "missing"
    /\ file.kind = "missing"

(* C9: get_vacancy_info returns, in stored order, exactly the stored        *)
(* records that meet every criterion given (the keyword within name,       *)
(* requirement or responsibility; the city within area.name or             *)
(* address.city; the currency equal up to case; salary.from at least       *)
(* min_salary, a record without salary.from failing); a criterion not      *)
(* given is not applied; the stored sequence is not changed.               *)
C9_QueryReturnsMatching ==
    op = "get_vacancy_info" =>
        LET given(x) == x.t = "str" /\ Strip(x.v) # <<>>
            \* the text of a field: that of a string or number, none for null
            text(x) == IF x.t \in {"str", "int"} THEN Lower(Str(x)) ELSE <<>>
            inner(v, outer, key) ==
                IF Get(v, outer).t = "dict"
                THEN text(Get(Get(v, outer).v, key)) ELSE <<>>
            within(x, hay) == Contains(hay, Lower(Strip(x.v)))
            hasKeyword(v) ==
                \/ within(arg.keyword, text(Get(v, "name")))
                \/ within(arg.keyword, inner(v, "snippet", "requirement"))
                \/ within(arg.keyword, inner(v, "snippet", "responsibility"))
            hasCity(v) ==
                \/ within(arg.city, inner(v, "area", "name"))
                \/ within(arg.city, inner(v, "address", "city"))
            hasCurrency(v) ==
                Upper(inner(v, "salary", "currency")) = Upper(Strip(arg.currency.v))
            from(v) ==
                IF Get(v, "salary").t = "dict"
                THEN Get(Get(v, "salary").v, "from") ELSE None
            hasSalary(v) ==
                /\ IntOf(from(v)).ok
                /\ IntOf(from(v)).n >= arg.min_salary.v
            meets(v) ==
                /\ given(arg.keyword) => hasKeyword(v)
                /\ given(arg.city) => hasCity(v)
                /\ given(arg.currency) => hasCurrency(v)
                /\ arg.min_salary.t = "int" => hasSalary(v)
        IN  /\ Returns(SelectSeq(StoredBefore, meets))
            /\ file = before

(* C10: a backing file that is missing, zero-byte, no JSON or no JSON list *)
(* is read as the empty sequence without an exception, and the next        *)
(* save_to_json(L) leaves exactly what upserting L into an empty store     *)
(* leaves.                                                                 *)
C10_DamagedFileStartsFresh ==
    before.kind \in {"missing", "zero", "invalid", "nonlist"} =>
        /\ op = "load_from_json" => Returns(<<>>)
        /\ SavedBatch =>
              /\ Raises("none")
              /\ file = File("list", SavedList(File("list", <<>>), arg.vacancies))

\* a save onto a JSON object: the record it held is gone, the batch is stored
C10_Witness ==
    /\ SavedBatch
    /\ before.kind = "nonlist"
    /\ Len(before.data) >= 1
    /\ Len(Stored) >= 1
    /\ \A i \in 1..Len(Stored) : Stored[i] # before.data[1]

(* C11: add_vacancy(x) leaves the store as save_to_json([x]) would when x  *)
(* is a mapping and as save_to_json([x.to_dict()]) would when x has a      *)
(* callable to_dict (nothing is saved when to_dict raises); any other x    *)
(* raises the type error and the stored sequence is as it was.             *)
C11_AddIsSaveOfOne ==
    op = "add_vacancy" =>
        LET x == arg.vacancy
        IN  IF IsMapping(x)
            THEN file = WriteAll(SavedList(before, <<x>>)) /\ Raises("none")
            ELSE IF x.py = "Vacancy"
            THEN /\ file = WriteAll(SavedList(before, <<to_dict(x)>>))
                 /\ Raises("none")
            ELSE IF x.py = "Raising"
            THEN file = before
            ELSE Raises("TypeError") /\ file = before /\ Stored = StoredBefore

\* a Vacancy object is added over the stored record of its identity
C11_Witness ==
    /\ op = "add_vacancy"
    /\ arg.vacancy = vA
    /\ \E i \in 1..Len(StoredBefore) :
          StoredBefore[i] = rA /\ Stored[i] = to_dict(vA)
    /\ Len(Stored) = 2

-----------------------------------------------------------------------------
(* The collector: HeadHunterAPI.load_vacancies (src/src/api.py).  A call   *)
(* is followed turn by turn of its while loop; each turn issues one        *)
(* request and handles the response the source gives.                      *)

\* largest max_items a call is given
MaxWanted == 5

\* longest item batch a response carries
MaxReply == 2

\* largest total-pages count a response declares
MaxPages == 3

\* a max_items above the largest page size
ManyWanted == 101

\* the page up to which a source may go on declaring one page more
MaxTurns == 4

\* the status a response must have (line 43)
StatusOk == 200

\* the bounds of the page size (line 29)
PerPageLow == 1

PerPageHigh == 100

Min2(a, b) == IF a <= b THEN a ELSE b

Max2(a, b) == IF a >= b THEN a ELSE b

\* the per_page values a client is constructed with: below, within, above
PerPageArgs == {0, 2, 200}

\* the max_items values a call is given
MaxItemsArgs == (-1..MaxWanted) \cup {ManyWanted}

\* mutant: the constructor argument is taken as it is
PerPageUnclamped(per_page) == per_page

\* self._per_page = max(1, min(per_page, 100)) (line 29)
PerPage(per_page) == Max2(PerPageLow, Min2(per_page, PerPageHigh))

\* the n records of the response to the request for a page
Batch(p, n) == [i \in 1..n |-> [page |-> p, n |-> i]]

\* the total-pages counts a response to the request for a page may declare:
\* none, a fixed number, or always one page more than was asked for
Totals(p) ==
    {None} \cup {I(t) : t \in 0..MaxPages}
        \cup (IF p + 1 < MaxTurns THEN {I(p + 2)} ELSE {})

\* what the source may answer to the request for a page: an error status,
\* or a JSON object with up to MaxReply items and, optionally, pages
Responses(p) ==
    {[status_code |-> s, items |-> <<>>, pages |-> None] : s \in {404, 500}}
    \cup {[status_code |-> StatusOk, items |-> Batch(p, n), pages |-> total] :
            n \in 0..MaxReply, total \in Totals(p)}

\* the payload of the next request (lines 61-62)
Payload ==
    [text |-> arg.keyword, page |-> page,
     per_page |-> Min2(PerPage(arg.per_page), arg.max_items - Len(items))]

\* mutant: an error status is not looked at
FailedNever(response) == FALSE

\* _request: resp.status_code != 200 raises RuntimeError (lines 43-45)
Failed(response) == response.status_code # StatusOk

\* mutant: the batch is dropped, the accumulated records stay as they are
ExtendNothing(list, batch) == list

\* mutant: the new batch is put in front of the accumulated records
ExtendInFront(list, batch) == batch \o list

\* items.extend(batch) (line 69)
Extend(list, batch) == list \o batch

\* mutant: a response that declares no pages does not end the call
LastPageDeclared(pages_total, p) ==
    pages_total # None /\ p >= pages_total.v - 1

\* pages_total is None or page >= int(pages_total) - 1 (line 72)
LastPage(pages_total, p) ==
    pages_total = None \/ p >= pages_total.v - 1

\* the call ends: with the records it returns, or with an exception
Ends(outcome) ==
    /\ pc' = IF outcome.raised = "none" THEN "returned" ELSE "raised"
    /\ ret' = outcome
    /\ UNCHANGED page

\* one turn of the while loop (lines 60-74): the request is issued, the
\* response handled
Turn(response) ==
    /\ pc = "loop"
    /\ Len(items) < arg.max_items
    /\ sent' = Append(sent, Payload)
    /\ got' = Append(got, response)
    /\ IF Failed(response)
       THEN Ends(Raised("RuntimeError")) /\ UNCHANGED items
       ELSE IF response.items = <<>>
       THEN Ends(Returned(ListOf(items))) /\ UNCHANGED items
       ELSE /\ items' = Extend(items, response.items)
            /\ IF LastPage(response.pages, page)
               THEN Ends(Returned(ListOf(items')))
               ELSE pc' = "loop" /\ page' = page + 1 /\ UNCHANGED ret
    /\ UNCHANGED <<file, op, arg, before, reads, writes, saving, source>>

\* the loop condition fails (line 60): return items (line 76)
Return ==
    /\ pc = "loop"
    /\ ~(Len(items) < arg.max_items)
    /\ Ends(Returned(ListOf(items)))
    /\ UNCHANGED <<file, op, arg, before, reads, writes, items, sent, got, saving,
                   source>>

\* a client constructed with some per_page, load_vacancies called with
\* some max_items: items = [], page = 0 (lines 57-58)
InitLoad ==
    /\ file = File("missing", <<>>)
    /\ before = File("missing", <<>>)
    /\ reads = 0
    /\ writes = 0
    /\ op = "load_vacancies"
    /\ arg \in [keyword : {S(<<"p", "y">>)}, max_items : MaxItemsArgs,
                per_page : PerPageArgs]
    /\ ret = Returned(None)
    /\ pc = "loop"
    /\ items = <<>>
    /\ page = 0
    /\ sent = <<>>
    /\ got = <<>>
    /\ NooneSaving
    /\ NoSource

NextLoad ==
    \/ \E response \in Responses(page) : Turn(response)
    \/ Return

SpecLoad == InitLoad /\ [][NextLoad]_vars

\* every request returns, and the call goes on after it; a step of the
\* call moves it to the next page or ends it
SpecLoadFair == SpecLoad /\ WF_<<pc, page>>(NextLoad)

-----------------------------------------------------------------------------
(* What the claims on the collector speak of.                              *)

\* the number of records the first k responses carried
RECURSIVE Received(_)
Received(k) == IF k = 0 THEN 0 ELSE Received(k - 1) + Len(got[k].items)

\* the call has ended, with a result or an exception
Ended == pc \in {"returned", "raised"}

\* the k-th response was a successful one
Succeeded(k) == got[k].status_code = StatusOk

\* a further request followed the k-th one
Followed(k) == k < Len(sent)

\* after the k-th response the accumulated count has reached max_items
ReachedAfter(k) == Received(k) >= arg.max_items

(* C12, as the claim states it: after a successful response the call stops *)
(* only when the accumulated count has reached max_items, or the batch is  *)
(* empty, or the response declares a total-pages count and the page is the *)
(* last one; in every other case, a non-empty response without a           *)
(* total-pages count below max_items too, the next page is requested.      *)
C12_StopsForThreeReasons ==
    Ended =>
        \A k \in 1..Len(got) :
            Succeeded(k) =>
                LET stop ==
                        \/ ReachedAfter(k)
                        \/ got[k].items = <<>>
                        \/ /\ got[k].pages # None
                           /\ sent[k].page >= got[k].pages.v - 1
                IN  /\ Followed(k) <=> ~stop
                    /\ Followed(k) => sent[k + 1].page = sent[k].page + 1

(* C12, amended: the call also stops after a non-empty response that       *)
(* declares no total-pages count; it requests the next page exactly when   *)
(* the count is below max_items, the batch is not empty and the response   *)
(* declares a total-pages count with page < total_pages - 1.               *)
C12_StopsWithoutPagesToo ==
    Ended =>
        \A k \in 1..Len(got) :
            Succeeded(k) =>
                LET stop ==
                        \/ ReachedAfter(k)
                        \/ got[k].items = <<>>
                        \/ got[k].pages = None
                        \/ sent[k].page >= got[k].pages.v - 1
                IN  /\ Followed(k) <=> ~stop
                    /\ Followed(k) => sent[k + 1].page = sent[k].page + 1

\* the second response has records, declares no pages, and ends a call that
\* has fewer records than max_items
C12_Witness ==
    /\ pc = "returned"
    /\ Len(got) = 2
    /\ got[2].items # <<>>
    /\ got[2].pages = None
    /\ Len(items) < arg.max_items

(* C13: whatever batch sizes the source returns, a call that returns       *)
(* delivers at most max_items records, and no request is issued once the   *)
(* accumulated count has reached max_items.                                *)
C13_AtMostMaxItems ==
    /\ (pc = "returned" /\ arg.max_items >= 0) => Len(items) <= arg.max_items
    /\ pc = "returned" => Returns(ListOf(items))
    /\ \A k \in 1..Len(sent) : Received(k - 1) < arg.max_items

(* C14: every request carries per_page = min(page size, max_items minus    *)
(* the accumulated count), the page size being the constructor argument    *)
(* clamped to [1, 100]; so every per_page lies in [1, 100] and is at most  *)
(* the number of records still missing.                                    *)
C14_PerPageIsMinOfSizeAndMissing ==
    \A k \in 1..Len(sent) :
        LET missing == arg.max_items - Received(k - 1)
            size == IF arg.per_page < 1 THEN 1
                    ELSE IF arg.per_page > 100 THEN 100 ELSE arg.per_page
        IN  /\ sent[k].per_page = (IF size <= missing THEN size ELSE missing)
            /\ sent[k].per_page \in 1..100
            /\ sent[k].per_page <= missing

\* a client constructed with per_page 200 asks for 100 records, gets fewer,
\* and then asks for as many as are still missing, which is below 100
C14_Witness ==
    /\ arg.per_page = 200
    /\ Len(sent) = 2
    /\ sent[1].per_page = 100
    /\ sent[2].per_page = arg.max_items - Len(got[1].items)
    /\ sent[2].per_page < 100

(* C15: when a request, the first or a later one, is answered with a       *)
(* status other than 200, the call ends with the error and returns no      *)
(* records, those of earlier pages neither, and no request follows the     *)
(* failed one.                                                             *)
C15_AllOrNothing ==
    \A k \in 1..Len(got) :
        ~Succeeded(k) =>
            /\ pc = "raised"
            /\ Raises("RuntimeError")
            /\ ret.value = None
            /\ ~Followed(k)

\* the second page fails after the first one brought records
C15_Witness ==
    /\ pc = "raised"
    /\ Len(got) = 2
    /\ Succeeded(1)
    /\ got[2].status_code = 500
    /\ Len(items) = 2

\* the batches of the first k responses, one after the other
RECURSIVE Concatenated(_)
Concatenated(k) ==
    IF k = 0 THEN <<>> ELSE Concatenated(k - 1) \o got[k].items

(* C16: the k-th request asks for page k-1, so the pages are requested in  *)
(* the order 0, 1, 2, ... with none skipped or repeated, and the call      *)
(* returns the received batches concatenated in the order of the requests. *)
C16_PagesInOrder ==
    /\ \A k \in 1..Len(sent) : sent[k].page = k - 1
    /\ pc = "returned" => Returns(ListOf(Concatenated(Len(got))))

\* a source of 3 pages with 2, 1 and 1 records: all 4 are returned
C16_Witness ==
    /\ pc = "returned"
    /\ Len(got) = 3
    /\ \A k \in 1..3 : got[k].pages = I(3)
    /\ Len(got[1].items) = 2 /\ Len(got[2].items) = 1 /\ Len(got[3].items) = 1
    /\ arg.max_items > 4
    /\ Returns(ListOf(<<[page |-> 0, n |-> 1], [page |-> 0, n |-> 2],
                   [page |-> 1, n |-> 1], [page |-> 2, n |-> 1]>>))

-----------------------------------------------------------------------------
(* The comparison of vacancies (src/src/vacancy.py) and the list functions *)
(* of src/src/utils.py.  They are pure: a call is drawn with its           *)
(* arguments, then the function is applied to them.                        *)

\* largest salary bound of a vacancy
MaxSalary == 3

\* longest list of vacancies
MaxList == 3

\* most keywords of a filter
MaxWords == 2

\* a Vacancy as the test factory makes one
make_vac(name, salary_from, salary_to, requirement, responsibility) ==
    [py |-> "Vacancy", id |-> None, name |-> S(name), city |-> S(<<"M">>),
     salary_from |-> salary_from, salary_to |-> salary_to,
     currency |-> S(<<"R">>), requirement |-> requirement,
     responsibility |-> responsibility, url |-> S(<<"u">>),
     alternate_url |-> None, employer |-> None]

\* a salary bound: None or a non-negative integer (_validate_salary)
Salaries == {None} \cup {I(n) : n \in 0..MaxSalary}

\* the vacancies that are compared: every pair of bounds, under two names
Compared ==
    {make_vac(name, a, b, None, None) :
        name \in {<<"P", "y">>, <<"G", "o">>}, a \in Salaries, b \in Salaries}

\* the vacancies the lists are made of: effective salaries 1, 1, 3, 0 and,
\* for vA, 3
vPy == make_vac(<<"P", "y">>, I(1), I(2), S(<<"d">>), None)

vGo == make_vac(<<"G", "o">>, I(1), None, None, None)

vHa == make_vac(<<"H", "a">>, None, I(3), None, S(<<"P", "y">>))

vNo == make_vac(<<"G", "o">>, None, None, S(<<"p", "y">>), None)

Listed == {vPy, vGo, vHa, vNo, vA}

Lists == SeqUpTo(Listed, MaxList)

\* the keywords of a filter: upper case, across two fields, empty, absent
Words == {<<"P", "Y">>, <<"y", " ", "d">>, <<>>, <<"g", "o">>}

\* mutant: with both bounds present the lower one is taken
effective_salary_from_first(self) ==
    IF self.salary_from # None THEN self.salary_from.v
    ELSE IF self.salary_to # None THEN self.salary_to.v
    ELSE 0

\* Vacancy._effective_salary
effective_salary(self) ==
    LET a == self.salary_from
        b == self.salary_to
    IN  IF a # None /\ b # None THEN (a.v + b.v) \div 2
        ELSE IF a # None THEN a.v
        ELSE IF b # None THEN b.v
        ELSE 0

\* Vacancy.__eq__, for two vacancies
eq(self, other) == effective_salary(self) = effective_salary(other)

\* Vacancy.__lt__, for two vacancies
lt(self, other) == effective_salary(self) < effective_salary(other)

\* list.reverse()
Reverse(list) == [i \in 1..Len(list) |-> list[Len(list) + 1 - i]]

\* a record put into an ascending list behind the records not greater than
\* it, compared with < only
RECURSIVE Insert(_, _)
Insert(list, v) ==
    IF list = <<>> THEN <<v>>
    ELSE IF lt(v, Head(list)) THEN <<v>> \o list
    ELSE <<Head(list)>> \o Insert(Tail(list), v)

\* the stable ascending sort of the first k records of a list
RECURSIVE SortStable(_, _)
SortStable(list, k) ==
    IF k = 0 THEN <<>> ELSE Insert(SortStable(list, k - 1), list[k])

\* mutant: sorted(vacancies)[::-1], which turns equal records around
sorted_then_reversed(list) == Reverse(SortStable(list, Len(list)))

\* sorted(vacancies, reverse=True): the list is reversed, sorted stably
\* with <, and reversed again
sorted_reverse(list) == Reverse(SortStable(Reverse(list), Len(list)))

\* utils.sort_get_top_vacancies
sort_get_top_vacancies(vacancies, top_n) ==
    LET n == Max2(0, top_n)
    IN  IF n = 0 THEN <<>>
        ELSE SubSeq(sorted_reverse(vacancies), 1, Min2(n, Len(vacancies)))

\* mutant: the bounds of the range are exclusive
within_exclusive(v, low, high) ==
    LET val == effective_salary(v)
    IN  /\ ~(low # None /\ val <= low.v)
        /\ ~(high # None /\ val >= high.v)

\* get_vacancies_by_salary.within
within(v, low, high) ==
    LET val == effective_salary(v)
    IN  /\ ~(low # None /\ val < low.v)
        /\ ~(high # None /\ val > high.v)

\* utils.get_vacancies_by_salary
get_vacancies_by_salary(vacancies, salary_range) ==
    SelectSeq(vacancies,
              LAMBDA v : within(v, salary_range[1], salary_range[2]))

\* mutant: the keywords are compared as they were typed
keys_as_typed(filter_words) == filter_words

\* keys = [w.lower() for w in filter_words]
keys(filter_words) == [i \in 1..Len(filter_words) |-> Lower(filter_words[i])]

\* filter_vacancies.ok: hay is the three fields joined by blanks, lowered
ok(v, filter_words) ==
    LET hay == Lower(OrEmpty(v.name) \o <<" ">> \o OrEmpty(v.requirement)
                     \o <<" ">> \o OrEmpty(v.responsibility))
    IN  \E i \in 1..Len(filter_words) : Contains(hay, keys(filter_words)[i])

\* utils.filter_vacancies
filter_vacancies(vacancies_list, filter_words) ==
    IF filter_words = <<>> THEN vacancies_list
    ELSE SelectSeq(vacancies_list, LAMBDA v : ok(v, filter_words))

\* the calls that are drawn
CompareCalls == [call : {"compare"}, self : Compared, other : Compared]

TopCalls ==
    [call : {"sort_get_top_vacancies"}, vacancies : Lists,
     top_n : -1..(MaxList + 1)]

SalaryCalls ==
    [call : {"get_vacancies_by_salary"}, vacancies : Lists,
     salary_range : Salaries \X Salaries]

FilterCalls ==
    [call : {"filter_vacancies"}, vacancies_list : Lists,
     filter_words : SeqUpTo(Words, MaxWords)]

\* a call is drawn and not yet made
InitUtils ==
    /\ file = File("missing", <<>>)
    /\ before = File("missing", <<>>)
    /\ reads = 0
    /\ writes = 0
    /\ LoaderIdle
    /\ NooneSaving
    /\ NoSource
    /\ op = "init"
    /\ ret = Returned(None)
    /\ \/ arg \in CompareCalls
       \/ arg \in TopCalls
       \/ arg \in SalaryCalls
       \/ arg \in FilterCalls

\* the call is made and its value kept
Applies(call, value) ==
    /\ op = "init"
    /\ arg.call = call
    /\ op' = call
    /\ ret' = Returned(value)
    /\ UNCHANGED <<file, arg, before, reads, writes, apart>>

\* self == other, self < other, and the effective salary of both
Compare ==
    /\ arg.call = "compare"
    /\ Applies("compare",
               [eq |-> eq(arg.self, arg.other), lt |-> lt(arg.self, arg.other),
                effective |-> <<effective_salary(arg.self),
                                effective_salary(arg.other)>>])

SortGetTopVacancies ==
    /\ arg.call = "sort_get_top_vacancies"
    /\ Applies("sort_get_top_vacancies",
               sort_get_top_vacancies(arg.vacancies, arg.top_n))

GetVacanciesBySalary ==
    /\ arg.call = "get_vacancies_by_salary"
    /\ Applies("get_vacancies_by_salary",
               get_vacancies_by_salary(arg.vacancies, arg.salary_range))

FilterVacancies ==
    /\ arg.call = "filter_vacancies"
    /\ Applies("filter_vacancies",
               filter_vacancies(arg.vacancies_list, arg.filter_words))

NextUtils ==
    \/ Compare
    \/ SortGetTopVacancies
    \/ GetVacanciesBySalary
    \/ FilterVacancies

SpecUtils == InitUtils /\ [][NextUtils]_vars

-----------------------------------------------------------------------------
(* What the claims on the comparison and the list functions speak of.      *)

\* twice the average of the bounds of a vacancy: their sum when both are
\* present, twice the present one when one is, 0 when none is
TwiceAverage(v) ==
    LET a == v.salary_from
        b == v.salary_to
    IN  IF a # None /\ b # None THEN a.v + b.v
        ELSE IF a # None THEN 2 * a.v
        ELSE IF b # None THEN 2 * b.v
        ELSE 0

(* C17, as the claim states it: the effective salary is the average of the *)
(* two bounds, (salary_from + salary_to) / 2, when both are present, the   *)
(* present bound when one is, 0 when none is; two vacancies are equal      *)
(* exactly when these values are equal and v1 < v2 exactly when that of v1 *)
(* is the smaller, whatever the other fields.                              *)
C17_ComparesByAverage ==
    op = "compare" =>
        /\ \A i \in 1..2 :
              2 * ret.value.effective[i]
                  = TwiceAverage(IF i = 1 THEN arg.self ELSE arg.other)
        /\ ret.value.eq <=> TwiceAverage(arg.self) = TwiceAverage(arg.other)
        /\ ret.value.lt <=> TwiceAverage(arg.self) < TwiceAverage(arg.other)

(* C17, amended: the effective salary is the average of the two bounds     *)
(* rounded down to an integer, (salary_from + salary_to) // 2, when both   *)
(* are present, the present bound when one is, 0 when none is; equality    *)
(* and < of two vacancies are those of these integers, whatever the other  *)
(* fields.                                                                 *)
C17_ComparesByFlooredAverage ==
    op = "compare" =>
        LET floored(v) ==
                CHOOSE e \in 0..MaxSalary :
                    /\ 2 * e <= TwiceAverage(v)
                    /\ TwiceAverage(v) < 2 * e + 2
        IN  /\ ret.value.effective = <<floored(arg.self), floored(arg.other)>>
            /\ ret.value.eq <=> floored(arg.self) = floored(arg.other)
            /\ ret.value.lt <=> floored(arg.self) < floored(arg.other)

\* bounds 1 and 2 against the single bound 1, under another name: the
\* averages differ, the vacancies compare equal
C17_Witness ==
    /\ op = "compare"
    /\ arg.self.salary_from = I(1) /\ arg.self.salary_to = I(2)
    /\ arg.other.salary_from = I(1) /\ arg.other.salary_to = None
    /\ arg.self.name # arg.other.name
    /\ ret.value.eq
    /\ ~ret.value.lt

\* the one-to-one maps of 1..n onto itself
Arrangements(n) ==
    {f \in [1..n -> 1..n] : \A i, j \in 1..n : f[i] = f[j] => i = j}

(* C18: sort_get_top_vacancies(L, n) is empty for n <= 0; otherwise it is  *)
(* the first min(n, len(L)) records of L arranged by descending effective  *)
(* salary, records of equal effective salary staying in the order they     *)
(* have in L; for n >= len(L) it is a permutation of all of L.             *)
C18_TopIsStableDescending ==
    op = "sort_get_top_vacancies" =>
        LET L == arg.vacancies
            n == arg.top_n
            R == ret.value
            salary(i) == effective_salary(L[i])
            \* f[i] is the place in L of the record that comes i-th
            arranges(f) ==
                \A i, j \in 1..Len(L) :
                    i < j =>
                        \/ salary(f[i]) > salary(f[j])
                        \/ salary(f[i]) = salary(f[j]) /\ f[i] < f[j]
        IN  IF n <= 0 THEN R = <<>>
            ELSE /\ Len(R) = (IF n <= Len(L) THEN n ELSE Len(L))
                 /\ \E f \in Arrangements(Len(L)) :
                       /\ arranges(f)
                       /\ \A i \in 1..Len(R) : R[i] = L[f[i]]

\* three records, the first two of equal effective salary and different,
\* the third above them: it comes first, the two follow in their order
C18_Witness ==
    /\ op = "sort_get_top_vacancies"
    /\ arg.top_n = 3
    /\ Len(arg.vacancies) = 3
    /\ arg.vacancies[1] # arg.vacancies[2]
    /\ effective_salary(arg.vacancies[1]) = effective_salary(arg.vacancies[2])
    /\ effective_salary(arg.vacancies[3]) > effective_salary(arg.vacancies[1])
    /\ ret.value = <<arg.vacancies[3], arg.vacancies[1], arg.vacancies[2]>>

\* the places of a list, in rising order, as a sequence
RECURSIVE Places(_, _)
Places(n, kept) ==
    IF n = 0 THEN <<>>
    ELSE IF n \in kept THEN Append(Places(n - 1, kept), n)
    ELSE Places(n - 1, kept)

\* the records of a list at the places kept, in the order of the list
SubList(list, kept) ==
    LET at == Places(Len(list), kept)
    IN  [i \in 1..Len(at) |-> list[at[i]]]

(* C19: get_vacancies_by_salary(L, (low, high)) keeps a record exactly     *)
(* when low <= effective salary <= high, both bounds inclusive and an      *)
(* absent bound not limiting that side; the result is the kept records in  *)
(* the order they have in L.                                               *)
C19_KeepsWithinRange ==
    op = "get_vacancies_by_salary" =>
        LET L == arg.vacancies
            low == arg.salary_range[1]
            high == arg.salary_range[2]
            kept == {i \in 1..Len(L) :
                        /\ low = None \/ low.v <= effective_salary(L[i])
                        /\ high = None \/ effective_salary(L[i]) <= high.v}
        IN  Returns(SubList(L, kept))

\* a range whose bounds are both met exactly, by the first and the last of
\* three records; the one between them is above the range
C19_Witness ==
    /\ op = "get_vacancies_by_salary"
    /\ Len(arg.vacancies) = 3
    /\ arg.salary_range[1] # None /\ arg.salary_range[2] # None
    /\ arg.salary_range[1].v < arg.salary_range[2].v
    /\ effective_salary(arg.vacancies[1]) = arg.salary_range[2].v
    /\ effective_salary(arg.vacancies[2]) > arg.salary_range[2].v
    /\ effective_salary(arg.vacancies[3]) = arg.salary_range[1].v
    /\ ret.value = <<arg.vacancies[1], arg.vacancies[3]>>

\* a keyword occurs in a field of a vacancy, whatever the case of either
OccursIn(word, field) == Contains(Lower(OrEmpty(field)), Lower(word))

-----------------------------------------------------------------------------
(* More on the store.                                                      *)

\* the last operation was a delete by vacancy_id alone
DeletedById == Deleted /\ Truthy(arg.vacancy_id) /\ ~Truthy(arg.url)

\* the places of the stored records a delete by vacancy_id matches: those
\* whose id, turned into a string, is the selector
Hits ==
    {i \in 1..Len(StoredBefore) :
        Str(GetOr(StoredBefore[i], "id", S(<<>>))) = arg.vacancy_id.v}

(* C22, as the claim states it: a delete by an id that matches a stored    *)
(* record removes exactly one record and returns 1, also for ids that are  *)
(* no identity (whitespace-only or non-string ids).                        *)
C22_DeleteByIdRemovesOne ==
    (DeletedById /\ Hits # {}) =>
        /\ Returns(1)
        /\ Len(Stored) = Len(StoredBefore) - 1

(* C22, amended: a delete by id removes every stored record whose id,      *)
(* turned into a string, is the selector, and returns their number; that   *)
(* is one record and 1 when the selector is an id pick_identity accepts (a *)
(* string with a non-blank character) and no matching id is a non-string.  *)
C22_DeleteByIdRemovesAllHits ==
    DeletedById =>
        LET strings == {i \in Hits : StoredBefore[i].id.t = "str"}
        IN  /\ Returns(Cardinality(Hits))
            /\ Stored = SubList(StoredBefore, (1..Len(StoredBefore)) \ Hits)
            /\ (Strip(arg.vacancy_id.v) # <<>> /\ Hits = strings)
                   => Cardinality(Hits) <= 1

\* two stored records carry the blank id: the delete by it removes both
C22_Witness ==
    /\ DeletedById
    /\ Strip(arg.vacancy_id.v) = <<>>
    /\ Cardinality(Hits) = 2
    /\ Returns(2)
    /\ Stored = <<>>

(* C25: get_vacancy_info never raises on stored mappings: whatever the     *)
(* criteria, and also when a stored record has null under snippet, area,   *)
(* address or salary, it returns a list of stored records and leaves the   *)
(* file as it was.                                                         *)
C25_QueryNeverRaises ==
    op = "get_vacancy_info" =>
        /\ Raises("none")
        /\ \A i \in 1..Len(ret.value) :
              \E j \in 1..Len(StoredBefore) : ret.value[i] = StoredBefore[j]
        /\ file = before

-----------------------------------------------------------------------------
(* Two save_to_json calls on one backing file (src/src/files.py, lines     *)
(* 61-83).  Nothing locks the file, so the read of a call (line 62) and    *)
(* its write (line 83) are steps between which the other call may run.     *)

Writers == {1, 2}

\* the file the two calls find
RaceFiles ==
    {File("missing", <<>>), File("list", <<>>), File("list", <<rN>>),
     File("list", <<rA>>)}

\* the batches of the two calls: not empty, of records with identity, and
\* no identity in both
RaceBatches ==
    LET batches == SeqUpTo({rA, rA2, rU}, MaxBatch) \ {<<>>}
    IN  {b \in batches \X batches : Identities(b[1]) \cap Identities(b[2]) = {}}

\* both calls are about to start
InitRace ==
    /\ file \in RaceFiles
    /\ before = file
    /\ op = "init"
    /\ arg = <<>>
    /\ ret = Returned(None)
    /\ reads = 0
    /\ writes = 0
    /\ LoaderIdle
    /\ NoSource
    /\ \E b \in RaceBatches :
          saving = [batch |-> b, at |-> <<"start", "start">>,
                    seen |-> <<file, file>>, log |-> <<>>]

\* current = self._read_all() (line 62)
ReadStep(w) ==
    /\ saving.at[w] = "start"
    /\ saving' = [saving EXCEPT !.at[w] = "read", !.seen[w] = file,
                                !.log = Append(@, [step |-> "read", by |-> w])]
    /\ UNCHANGED <<file, op, arg, ret, before, reads, writes, loader, source>>

\* mutant: the file is read again at the moment of the write
WriteStepRereads(w) ==
    /\ saving.at[w] = "read"
    /\ file' = WriteAll(SavedList(file, saving.batch[w]))
    /\ saving' = [saving EXCEPT !.at[w] = "done",
                                !.log = Append(@, [step |-> "write", by |-> w])]
    /\ UNCHANGED <<op, arg, ret, before, reads, writes, loader, source>>

\* the batch is upserted into what was read, and the list written
\* (lines 63-83)
WriteStep(w) ==
    /\ saving.at[w] = "read"
    /\ file' = WriteAll(SavedList(saving.seen[w], saving.batch[w]))
    /\ saving' = [saving EXCEPT !.at[w] = "done",
                                !.log = Append(@, [step |-> "write", by |-> w])]
    /\ UNCHANGED <<op, arg, ret, before, reads, writes, loader, source>>

NextRace ==
    \/ \E w \in Writers : ReadStep(w)
    \/ \E w \in Writers : WriteStep(w)

SpecRace == InitRace /\ [][NextRace]_vars

\* both calls have written
BothSaved == saving # <<>> /\ \A w \in Writers : saving.at[w] = "done"

\* when a call made a step
At(step, w) ==
    CHOOSE i \in 1..Len(saving.log) : saving.log[i] = [step |-> step, by |-> w]

\* the call that wrote first, and the other one
WroteFirst ==
    CHOOSE w \in Writers : \A u \in Writers : At("write", w) <= At("write", u)

WroteLast == CHOOSE w \in Writers : w # WroteFirst

\* both calls read before either wrote
BothReadFirst == At("read", WroteLast) < At("write", WroteFirst)

\* every identity of a batch is stored with the batch's last record of it
Holds(records, batch) ==
    \A ident \in Identities(batch) :
        \E k \in 1..Len(records) :
            records[k] = batch[Max(Carrying(batch, S(ident)))]

(* C21: two save_to_json calls with disjoint identities on one file: when  *)
(* both read before either writes, the records of the call that wrote      *)
(* first are missing in the end (unless the file held them before); when   *)
(* one call runs wholly before the other, the records of both are stored;  *)
(* those of the call that wrote last are stored in every case.             *)
C21_LostUpdateIffBothReadFirst ==
    BothSaved =>
        LET first == saving.batch[WroteFirst]
            last == saving.batch[WroteLast]
            found == ReadAll(saving.seen[WroteLast])
        IN  /\ Holds(Stored, last)
            /\ ~BothReadFirst => Holds(Stored, first)
            /\ (BothReadFirst /\ ~Holds(found, first)) => ~Holds(Stored, first)

\* on an empty file both calls read, then both write: the store holds the
\* records of the second writer alone
C21_Witness ==
    /\ BothSaved
    /\ BothReadFirst
    /\ saving.seen = <<File("list", <<>>), File("list", <<>>)>>
    /\ Identities(Stored) = Identities(saving.batch[WroteLast])
    /\ Identities(saving.batch[WroteFirst]) \cap Identities(Stored) = {}

-----------------------------------------------------------------------------
(* load_vacancies against a source that pages by offset: it holds a fixed  *)
(* list of results and answers the request (page, per_page) with the       *)
(* results from page * per_page on, per_page of them at most.              *)

\* most results the source holds
MaxTotal == 5

\* the results a source of T holds, in its order
Results(T) == [i \in 1..T |-> [result |-> i]]

\* the answer to a payload: the slice of the list, and the number of pages
\* of that size
PagedResponse(payload) ==
    LET T == Len(source)
        from == payload.page * payload.per_page
        upto == Min2(T, from + payload.per_page)
    IN  [status_code |-> StatusOk,
         items |-> SubSeq(source, from + 1, upto),
         pages |-> I((T + payload.per_page - 1) \div payload.per_page)]

\* a call as in InitLoad, and the source it asks
InitPaged ==
    /\ file = File("missing", <<>>)
    /\ before = File("missing", <<>>)
    /\ reads = 0
    /\ writes = 0
    /\ op = "load_vacancies"
    /\ arg \in [keyword : {S(<<"p", "y">>)}, max_items : MaxItemsArgs,
                per_page : PerPageArgs]
    /\ ret = Returned(None)
    /\ pc = "loop"
    /\ items = <<>>
    /\ page = 0
    /\ sent = <<>>
    /\ got = <<>>
    /\ NooneSaving
    /\ source \in {Results(T) : T \in 0..MaxTotal}

NextPaged ==
    \/ Turn(PagedResponse(Payload))
    \/ Return

SpecPaged == InitPaged /\ [][NextPaged]_vars

(* C23: against a source that pages by offset and holds T results, the     *)
(* call returns the first min(T, max_items) results, each once and none    *)
(* skipped, whatever the page size and max_items.                          *)
C23_ReturnsFirstResults ==
    pc = "returned" =>
        LET wanted == Min2(Len(source), Max2(0, arg.max_items))
        IN  Returns(ListOf(SubSeq(source, 1, wanted)))

-----------------------------------------------------------------------------
(* C24: provided each request returns, load_vacancies ends, whatever the   *)
(* responses are (a source that never sends an empty batch and always      *)
(* declares one page more too); it issues at most max(0, max_items)        *)
(* requests, and with max_items <= 0 none, returning the empty sequence.   *)
C24_EndsWithinMaxItemsRequests ==
    /\ <>Ended
    /\ [](Len(sent) <= Max2(0, arg.max_items))
    /\ []((arg.max_items <= 0 /\ Ended) => (sent = <<>> /\ Returns(ListOf(<<>>))))

\* max_items requests of one record each, every response declaring one
\* page more: the call ends by the count alone
C24_Witness ==
    /\ pc = "returned"
    /\ arg.max_items = 3
    /\ Len(sent) = 3
    /\ \A k \in 1..3 : Len(got[k].items) = 1 /\ got[k].pages = I(k + 1)

====
